---- MODULE Spec2Model ----
(***************************************************************************)
(* ds-chat: a conversational HTTP front-end over an external agent.        *)
(*                                                                         *)
(*   backend/session_manager.py   SessionManager      (session store)      *)
(*   backend/agent_runner.py      AgentRunner         (lifecycle + turn)   *)
(*   backend/app.py               FastAPI backend     (/api/chat, ...)     *)
(*   python-agent/server.py       FastAPI bridge      (/chat)              *)
(*                                                                         *)
(* Coroutines are cut at their awaits: everything a handler does between   *)
(* two awaits is one atomic step of the asyncio event loop.                *)
(*                                                                         *)
(* Specifications                                                          *)
(*   SpecStore   SessionManager driven through its public methods          *)
(*   SpecClock   the same over a clock that moves                          *)
(*   SpecPersist the same with a snapshot directory, and restarts          *)
(*   SpecDisk    the same over a disk whose writes can fail                *)
(*   SpecRunner  one AgentRunner driven by concurrent callers              *)
(*   SpecTurn    the turn pipeline of app.py chat (lines 160-197) over a   *)
(*               ready runner and the store                                *)
(*   SpecApp     backend/app.py: lifespan and the HTTP handlers            *)
(*   SpecServer  python-agent/server.py: startup, /chat, shutdown          *)
(*   SpecBuild   _build_agent_input of server.py over request objects      *)
(***************************************************************************)
EXTENDS Integers, Sequences, FiniteSets, TLC

\* ------------------------------------------------------------------ bounds
NTasks == 2          \* concurrent callers / requests
MaxServers == 2      \* tool-subprocess connection objects ever constructed
MaxUuid == 2         \* ids uuid4 can hand out
MaxMsgs == 2         \* messages held by the whole store
MaxClock == 2        \* latest reading of the clock, in ticks

\* ------------------------------------------------------------------ values
None == 0            \* Python None in a handle-valued field
NoId == -1           \* ChatRequest.session_id left out (None)
Foreign == 0         \* a caller-made session id that uuid4 never returned

Tasks == 1..NTasks
Handles == 1..MaxServers
Uuids == 1..MaxUuid
Roles == {"user", "assistant"}
Contents == {"a", "b"}
ReqMessages == {"", " ", "a", "b"}     \* ChatRequest.message

\* The metadata argument of add_message: None, or a dict. A dict is given by
\* the value under each key it may hold, Missing / NoTime for a key it lacks.
Missing == "missing"
NoTime == -1
Meta(kind, tools, tokens, time_ms, extra) ==
    [kind |-> kind, tools |-> tools, tokens |-> tokens, time_ms |-> time_ms,
     extra |-> extra]
NoneMeta == Meta("None", Missing, Missing, NoTime, Missing)
EmptyMeta == Meta("dict", Missing, Missing, NoTime, Missing)
\* the dict chat builds: {"tools": .., "tokens": .., "time_ms": ..}
ChatMeta == Meta("dict", "q1", "k1", 5, Missing)
Metas ==
    {NoneMeta, EmptyMeta,
     Meta("dict", "q2", Missing, NoTime, Missing),
     Meta("dict", "q1", "k1", 5, "x")}

VARIABLES
    sessions,          \* SessionManager.sessions: id -> ChatSession
    order,             \* the keys of that dict in the order it holds them
    issued,            \* ids uuid4 has returned so far
    clock,             \* datetime.utcnow(): the latest reading, in ticks
    files,             \* the snapshot directory: file stem -> document
    persist_dir,       \* SessionManager.persist_dir is set
    mcp_server,        \* AgentRunner.mcp_server
    agent_instance,    \* AgentRunner.agent_instance (the handle it is bound to)
    srv,               \* every connection object: its subprocess status
    _agent_instance,   \* server.py global
    _server_cm,        \* server.py global
    _agent_lock,       \* server.py global: an asyncio.Lock, [locked, waiters]
    phase,             \* app.py lifespan position
    _agent_runner,     \* app.py global: TRUE when it names a runner
    pc,                \* where each task's coroutine is suspended
    loc,               \* each task's locals
    resp,              \* the call that completed last, and its outcome
    turns,             \* chat turns begun so far (bounds the run)
    call_payload,      \* the ChatRequest a caller of _build_agent_input holds
    call_result        \* what _build_agent_input returned to that caller

storeVars == <<sessions, order, issued, clock, files, persist_dir>>
runnerVars == <<mcp_server, agent_instance>>
serverVars == <<_agent_instance, _server_cm, _agent_lock, call_payload,
                call_result>>
appVars == <<phase, _agent_runner>>
taskVars == <<pc, loc>>
callVars == <<call_payload, call_result>>
vars == <<sessions, order, issued, clock, files, persist_dir, mcp_server, agent_instance, srv,
          _agent_instance, _server_cm, _agent_lock, phase, _agent_runner,
          pc, loc, resp, turns, call_payload, call_result>>

\* ------------------------------------------------------------ task locals
\* h: the connection or agent the coroutine holds; input: what it submits
\* to Runner.run, a bare string (kind "str") or a message list (kind "list")
NoInput == [kind |-> "none", text |-> "", items |-> <<>>]
NoLoc == [h |-> None, sid |-> NoId, msg |-> "", input |-> NoInput]

\* ChatRequest of server.py. conversation is None or a list, prompt is None
\* or a string; an optional list is [kind, items] with kind "None" or "list".
NoPrompt == "<None>"
NoneList == [kind |-> "None", items |-> <<>>]
List(items) == [kind |-> "list", items |-> items]
Payload(input, prompt, messages, conversation) ==
    [input |-> input, prompt |-> prompt, messages |-> messages,
     conversation |-> conversation]
NoPayload == Payload("", NoPrompt, <<>>, NoneList)

\* asyncio.Lock() of server.py, line 82: _locked, and _waiters in the order they came
Unlocked == [locked |-> FALSE, waiters |-> <<>>]
\* Lock.acquire without waiting: the lock is free and nobody is queued
CanAcquire(lock) == ~lock.locked /\ lock.waiters = <<>>

\* what the call that completed last gave its caller
Done(op, res, sid, text) == [op |-> op, res |-> res, sid |-> sid, text |-> text]
NoResp == Done("none", "none", NoId, "")

\* =================================================== session_manager.py
UserMsg(content) == [role |-> "user", content |-> content]

\* ---- datetime.utcnow().isoformat()
\* A tick is half a second. isoformat() writes "YYYY-MM-DDTHH:MM:SS" and adds
\* ".ffffff" only when the microsecond is not zero. All readings fall in one
\* minute, so the common prefix up to "MM:" is left out; a string is the
\* sequence of its character codes ("." is 46, "0" is 48).
Digits(k, width) == [i \in 1..width |-> 48 + ((k \div (10 ^ (width - i))) % 10)]
isoformat(tick) ==
    LET second == tick \div 2
        microsecond == 500000 * (tick % 2)
    IN  Digits(second, 2) \o
            (IF microsecond = 0 THEN <<>> ELSE <<46>> \o Digits(microsecond, 6))

\* str < str: the first differing character decides, a proper prefix is less
StrLess(a, b) ==
    \E i \in 1..(Len(b)) :
        /\ \A j \in 1..(i - 1) : j <= Len(a) /\ a[j] = b[j]
        /\ (i > Len(a) \/ a[i] < b[i])

\* ChatSession.metadata: {} or {"last_response": summary}. The field holds
\* the summary, NoLastResponse when the key is absent.
Summary(tools, tokens, time_ms) ==
    [tools |-> tools, tokens |-> tokens, time_ms |-> time_ms]
NoLastResponse == Summary(Missing, Missing, NoTime)

NewSessionNeverUpdated(id, now) ==
    [session_id |-> id, created_at |-> now, updated_at |-> <<>>,
     messages |-> <<>>, metadata |-> [last_response |-> NoLastResponse]]
\* ChatSession(session_id, created_at=now, updated_at=now, messages=[])
NewSession(id, now) ==
    [session_id |-> id, created_at |-> now, updated_at |-> now,
     messages |-> <<>>, metadata |-> [last_response |-> NoLastResponse]]

Put(S, id, session) ==
    [x \in DOMAIN S \cup {id} |-> IF x = id THEN session ELSE S[x]]

Without(S, id) == [x \in DOMAIN S \ {id} |-> S[x]]

RECURSIVE TotalMsgs(_)
TotalMsgs(S) ==
    IF DOMAIN S = {} THEN 0
    ELSE LET id == CHOOSE x \in DOMAIN S : TRUE
         IN  Len(S[id].messages) + TotalMsgs(Without(S, id))

\* create_session: session_id = str(uuid.uuid4()); self.sessions[id] = session
create_session(S, id, now) == Put(S, id, NewSession(id, now))

\* get_session: self.sessions.get(session_id)
HasSession(S, sid) == sid \in DOMAIN S

AppendMessageFirst(messages, msg) == <<msg>> \o messages
\* session.messages.append(msg)
AppendMessage(messages, msg) == Append(messages, msg)

\* the summary a merge with the stored one would give
MergedSummary(old, metadata) ==
    Summary(IF metadata.tools = Missing THEN old.tools ELSE metadata.tools,
            IF metadata.tokens = Missing THEN old.tokens ELSE metadata.tokens,
            IF metadata.time_ms = NoTime THEN old.time_ms ELSE metadata.time_ms)
LastResponseMerged(old, role, metadata) ==
    IF metadata.kind = "dict" /\ role = "assistant"
    THEN [old EXCEPT !.last_response = MergedSummary(@, metadata)]
    ELSE old

\* bool(metadata): None and the empty dict are falsy
Truthy(metadata) ==
    /\ metadata.kind = "dict"
    /\ \/ metadata.tools # Missing \/ metadata.tokens # Missing
       \/ metadata.time_ms # NoTime \/ metadata.extra # Missing

\* {"tools": metadata.get("tools", {}), "tokens": metadata.get("tokens", {}),
\*  "time_ms": metadata.get("time_ms", 0)}
SummaryOf(metadata) ==
    Summary(IF metadata.tools = Missing THEN "{}" ELSE metadata.tools,
            IF metadata.tokens = Missing THEN "{}" ELSE metadata.tokens,
            IF metadata.time_ms = NoTime THEN 0 ELSE metadata.time_ms)

\* if metadata: if role == "assistant": session.metadata["last_response"] = ...
LastResponse(old, role, metadata) ==
    IF Truthy(metadata) /\ role = "assistant"
    THEN [old EXCEPT !.last_response = SummaryOf(metadata)]
    ELSE old

add_messageRestamped(S, sid, role, content, metadata, now) ==
    Put(S, sid,
        [S[sid] EXCEPT
            !.messages = AppendMessage(@, [role |-> role, content |-> content]),
            !.metadata = LastResponse(@, role, metadata),
            !.created_at = now,
            !.updated_at = now])
\* add_message on a session that exists
add_message(S, sid, role, content, metadata, now) ==
    Put(S, sid,
        [S[sid] EXCEPT
            !.messages = AppendMessage(@, [role |-> role, content |-> content]),
            !.metadata = LastResponse(@, role, metadata),
            !.updated_at = now])

\* get_conversation_items: None when there is no session or no message
NoItems == [kind |-> "none", items |-> <<>>]
get_conversation_items(S, sid) ==
    IF ~HasSession(S, sid) \/ S[sid].messages = <<>>
    THEN NoItems
    ELSE [kind |-> "list", items |-> S[sid].messages]

\* delete_session: del self.sessions[session_id]
delete_session(S, sid) == Without(S, sid)

\* ---- the dict self.sessions keeps its keys in insertion order
\* keys(ord, S): the keys after a call that left the table S. A key that is
\* still there keeps its place (assigning to it does not move it), a
\* deleted key is gone, and the keys the call inserted come last, in the
\* order uuid4 handed them out
RECURSIVE Ascending(_)
Ascending(ids) ==
    IF ids = {} THEN <<>>
    ELSE LET id == CHOOSE x \in ids : \A o \in ids : x <= o
         IN  <<id>> \o Ascending(ids \ {id})
keys(ord, S) ==
    LET kept == SelectSeq(ord, LAMBDA id : id \in DOMAIN S)
    IN  kept \o Ascending(DOMAIN S \ {kept[i] : i \in 1..Len(kept)})

\* ---- list_sessions: sorted(self.sessions.values(), key=updated_at, reverse=True)
\* values() lists the sessions in the order of the keys
Values(S, ord) == [i \in 1..Len(ord) |-> S[ord[i]]]

\* sorted(.., reverse=True) is stable: of two sessions with equal keys the
\* one that came first in the input comes first in the output
InsertAscending(out, session) ==
    LET ahead == {i \in 1..Len(out) :
                     ~StrLess(session.updated_at, out[i].updated_at)}
        n == Cardinality(ahead)
    IN  SubSeq(out, 1, n) \o <<session>> \o SubSeq(out, n + 1, Len(out))
InsertDescending(out, session) ==
    LET ahead == {i \in 1..Len(out) :
                     ~StrLess(out[i].updated_at, session.updated_at)}
        n == Cardinality(ahead)
    IN  SubSeq(out, 1, n) \o <<session>> \o SubSeq(out, n + 1, Len(out))
RECURSIVE SortedDescending(_)
SortedDescending(seq) ==
    IF seq = <<>> THEN <<>>
    ELSE InsertDescending(SortedDescending(SubSeq(seq, 1, Len(seq) - 1)),
                          seq[Len(seq)])
list_sessions(S, ord) == SortedDescending(Values(S, ord))

\* ---- persistence
\* to_dict and ChatSession(**data): the five fields, one JSON document
to_dict(session) ==
    [session_id |-> session.session_id, created_at |-> session.created_at,
     updated_at |-> session.updated_at, messages |-> session.messages,
     metadata |-> session.metadata]
ChatSession(data) ==
    [session_id |-> data.session_id, created_at |-> data.created_at,
     updated_at |-> data.updated_at, messages |-> data.messages,
     metadata |-> data.metadata]

\* A snapshot file holds the JSON text of a document: the whole text after a
\* json.dump that returned, an unfinished text after one that raised (the
\* file was opened with "w", which empties it, before the dump began).
json_dump(data) == [complete |-> TRUE, doc |-> data]
Unfinished(data) == [complete |-> FALSE, doc |-> data]
\* json.load raises on an unfinished text, else it returns the document
CanLoad(text) == text.complete
json_load(text) == text.doc

\* what the disk does to one write: it succeeds, open() raises and the file
\* is as it was, or json.dump raises after open() emptied the file
DiskOutcomes == {"ok", "open_raises", "dump_raises"}

SaveOnlyNewFiles(F, S, persist, session_id, disk) ==
    IF ~persist \/ ~HasSession(S, session_id) \/ session_id \in DOMAIN F THEN F
    ELSE Put(F, session_id, json_dump(to_dict(S[session_id])))
\* _save_session: writes <persist_dir>/<session_id>.json
_save_session(F, S, persist, session_id, disk) ==
    IF ~persist \/ ~HasSession(S, session_id) THEN F
    ELSE CASE disk = "ok" ->
                Put(F, session_id, json_dump(to_dict(S[session_id])))
           [] disk = "open_raises" -> F
           [] disk = "dump_raises" ->
                Put(F, session_id, Unfinished(to_dict(S[session_id])))

\* _save_session has no except clause: what open() or json.dump raise leaves
\* it, and the method that called it
SaveRaises(persist, disk) == persist /\ disk # "ok"

UnlinkNothing(F, persist, session_id) == F
\* delete_session, lines 155-158: the file goes if it is there
Unlink(F, persist, session_id) ==
    IF persist /\ session_id \in DOMAIN F THEN Without(F, session_id) ELSE F

\* _load_all_sessions: every file that json.load can read is stored under
\* the session_id its document holds; a file it cannot read is passed over
_load_all_sessions(F) ==
    LET loaded == {stem \in DOMAIN F : CanLoad(F[stem])}
        ids == {ChatSession(json_load(F[stem])).session_id : stem \in loaded}
    IN  [id \in ids |->
            ChatSession(json_load(F[CHOOSE stem \in loaded :
                                        json_load(F[stem]).session_id = id]))]

\* ---- the store's methods as steps
\* uuid4 returns an id it never returned before; ids are opaque, so the
\* unissued ids are handed out in one fixed order
Fresh(iss) == CHOOSE id \in Uuids \ iss : \A o \in Uuids \ iss : id <= o
uuid4 == Fresh(issued)

\* datetime.utcnow(): a reading tick of a clock that does not go backwards;
\* two readings can be equal
Ticks == 0..MaxClock
utcnow(tick) ==
    /\ tick \in {clock, clock + 1} \cap Ticks
    /\ clock' = tick

\* disk: what the disk does to the write of this call; without a snapshot
\* directory nothing is written
SM_Create(id, tick, disk) ==
    /\ Uuids \ issued # {}
    /\ id = uuid4
    /\ persist_dir \/ disk = "ok"
    /\ utcnow(tick)
    /\ sessions' = create_session(sessions, id, isoformat(tick))
    /\ order' = keys(order, sessions')
    /\ files' = _save_session(files, sessions', persist_dir, id, disk)
    /\ issued' = issued \cup {id}
    /\ resp' = Done("create_session",
                    IF SaveRaises(persist_dir, disk) THEN "OSError" ELSE "ok",
                    NoId, "")
    /\ UNCHANGED persist_dir

SM_AddUpsert(sid, role, content, metadata, tick, disk) ==
    /\ resp' = Done("add_message", "ok", NoId, "")
    /\ TotalMsgs(sessions) < MaxMsgs
    /\ disk = "ok"
    /\ utcnow(tick)
    /\ sessions' =
           add_message(IF HasSession(sessions, sid) THEN sessions
                       ELSE create_session(sessions, sid, isoformat(tick)),
                       sid, role, content, metadata, isoformat(tick))
    /\ order' = keys(order, sessions')
    /\ files' = _save_session(files, sessions', persist_dir, sid, disk)
    /\ UNCHANGED <<issued, persist_dir>>

SM_Add(sid, role, content, metadata, tick, disk) ==
    IF HasSession(sessions, sid)
    THEN /\ resp' = Done("add_message",
                         IF SaveRaises(persist_dir, disk) THEN "OSError" ELSE "ok",
                         NoId, "")
         /\ TotalMsgs(sessions) < MaxMsgs
         /\ persist_dir \/ disk = "ok"
         /\ utcnow(tick)
         /\ sessions' = add_message(sessions, sid, role, content, metadata,
                                    isoformat(tick))
         /\ order' = keys(order, sessions')
         /\ files' = _save_session(files, sessions', persist_dir, sid, disk)
         /\ UNCHANGED <<issued, persist_dir>>
    ELSE /\ resp' = Done("add_message", "ValueError", NoId, "")
         /\ tick = clock
         /\ disk = "ok"
         /\ UNCHANGED storeVars

\* lines 150-160. unlink() is not guarded either: when it raises, the
\* session has left the table already (line 153) and its file stays
UnlinkOutcomes == {"ok", "unlink_raises"}
UnlinkRaises(F, persist, session_id, disk) ==
    persist /\ session_id \in DOMAIN F /\ disk = "unlink_raises"
SM_Delete(sid, disk) ==
    IF HasSession(sessions, sid)
    THEN /\ disk = "ok" \/ UnlinkRaises(files, persist_dir, sid, disk)
         /\ resp' = Done("delete_session",
                         IF disk = "ok" THEN "True" ELSE "OSError", NoId, "")
         /\ sessions' = delete_session(sessions, sid)
         /\ order' = keys(order, sessions')
         /\ files' = IF disk = "ok" THEN Unlink(files, persist_dir, sid)
                     ELSE files
         /\ UNCHANGED <<issued, clock, persist_dir>>
    ELSE /\ disk = "ok"
         /\ resp' = Done("delete_session", "False", NoId, "")
         /\ UNCHANGED storeVars

\* clear_all, lines 162-167: the table is emptied first, then every *.json
\* of the directory is unlinked, whether or not the table held its session.
\* left: the files still there when the call ends. unlink() is not guarded:
\* when one raises, the loop stops and the files it has not reached stay
\* (glob yields them in no fixed order); left = {} is the call that returns
SM_ClearAll(left) ==
    /\ left \subseteq DOMAIN files
    /\ persist_dir \/ left = {}
    /\ sessions' = <<>>
    /\ order' = <<>>
    /\ files' = IF persist_dir THEN [stem \in left |-> files[stem]]
                ELSE files
    /\ resp' = Done("clear_all", IF left = {} THEN "None" ELSE "OSError",
                    NoId, "")
    /\ UNCHANGED <<issued, clock, persist_dir>>

\* SessionManager(persist_dir) made anew on the same directory (a restart).
\* glob: the files in the order Path.glob yields them (line 188), which is
\* the order in which the new dict receives its keys
SM_Init(glob) ==
    /\ glob \in [1..Cardinality(DOMAIN files) -> DOMAIN files]
    /\ \A i, j \in DOMAIN glob : glob[i] = glob[j] => i = j
    /\ sessions' = IF persist_dir THEN _load_all_sessions(files) ELSE <<>>
    /\ order' = IF persist_dir
                THEN LET read == SelectSeq(glob, LAMBDA stem : CanLoad(files[stem]))
                     IN  [i \in 1..Len(read) |->
                             ChatSession(json_load(files[read[i]])).session_id]
                ELSE <<>>
    /\ resp' = Done("__init__", "ok", NoId, "")
    /\ UNCHANGED <<issued, clock, files, persist_dir>>

\* ------------------------------------------------------------ SpecStore
InitCommon ==
    /\ sessions = <<>>
    /\ order = <<>>
    /\ issued = {}
    /\ clock = 0
    /\ files = <<>>
    /\ persist_dir = FALSE
    /\ mcp_server = None
    /\ agent_instance = None
    /\ srv = [h \in Handles |-> "unborn"]
    /\ _agent_instance = None
    /\ _server_cm = None
    /\ _agent_lock = Unlocked
    /\ phase = "boot"
    /\ _agent_runner = FALSE
    /\ pc = [t \in Tasks |-> "idle"]
    /\ loc = [t \in Tasks |-> NoLoc]
    /\ resp = NoResp
    /\ turns = 0
    /\ call_payload = NoPayload
    /\ call_result = NoInput

notStore == <<mcp_server, agent_instance, srv, _agent_instance, _server_cm,
              _agent_lock, phase, _agent_runner, pc, loc, turns, callVars>>

SessionArgs == Uuids \cup {Foreign}

\* every reading of the clock is the same here: SpecClock moves it
StoreCreate ==
    \E id \in Uuids : SM_Create(id, clock, "ok") /\ UNCHANGED notStore
StoreAdd(sid, role, content, metadata) ==
    SM_Add(sid, role, content, metadata, clock, "ok") /\ UNCHANGED notStore
StoreAddAny ==
    \E sid \in SessionArgs, role \in Roles, content \in Contents,
       metadata \in Metas : StoreAdd(sid, role, content, metadata)
StoreDelete == \E sid \in SessionArgs : SM_Delete(sid, "ok") /\ UNCHANGED notStore
\* clear_all over a disk that does not fail
StoreClearAll == SM_ClearAll({}) /\ UNCHANGED notStore

NextStore == StoreCreate \/ StoreAddAny \/ StoreDelete \/ StoreClearAll
SpecStore == InitCommon /\ [][NextStore]_vars

\* ------------------------------------------------------------ SpecClock
\* The in-memory store over a clock that moves; one kind of message.
ClockCreate ==
    \E id \in Uuids, tick \in Ticks :
        SM_Create(id, tick, "ok") /\ UNCHANGED notStore
ClockAdd(sid, tick) ==
    SM_Add(sid, "user", "a", NoneMeta, tick, "ok") /\ UNCHANGED notStore
ClockAddAny == \E sid \in SessionArgs, tick \in Ticks : ClockAdd(sid, tick)

NextClock == ClockCreate \/ ClockAddAny \/ StoreDelete \/ StoreClearAll
SpecClock == InitCommon /\ [][NextClock]_vars

\* ---------------------------------------------------------- SpecPersist
\* A SessionManager with a snapshot directory, empty at first, that is
\* constructed anew on the same directory from time to time. Every write to
\* the directory succeeds here: SpecDisk lets them fail.
PersistAddAny ==
    \E sid \in SessionArgs, role \in Roles, tick \in Ticks :
        SM_Add(sid, role, "a", ChatMeta, tick, "ok") /\ UNCHANGED notStore
PersistRestart ==
    \E glob \in [1..Cardinality(DOMAIN files) -> DOMAIN files] :
        SM_Init(glob) /\ UNCHANGED notStore

InitPersist ==
    /\ sessions = <<>>
    /\ order = <<>>
    /\ issued = {}
    /\ clock = 0
    /\ files = <<>>
    /\ persist_dir = TRUE
    /\ mcp_server = None
    /\ agent_instance = None
    /\ srv = [h \in Handles |-> "unborn"]
    /\ _agent_instance = None
    /\ _server_cm = None
    /\ _agent_lock = Unlocked
    /\ phase = "boot"
    /\ _agent_runner = FALSE
    /\ pc = [t \in Tasks |-> "idle"]
    /\ loc = [t \in Tasks |-> NoLoc]
    /\ resp = NoResp
    /\ turns = 0
    /\ call_payload = NoPayload
    /\ call_result = NoInput
NextPersist ==
    \/ ClockCreate \/ PersistAddAny \/ StoreDelete \/ StoreClearAll
    \/ PersistRestart
SpecPersist == InitPersist /\ [][NextPersist]_vars

\* ------------------------------------------------------------- SpecDisk
\* The same SessionManager over a disk whose writes can fail. The clock
\* stands still and every message is an assistant's.
DiskCreate ==
    \E id \in Uuids, disk \in DiskOutcomes :
        SM_Create(id, clock, disk) /\ UNCHANGED notStore
DiskAddAny ==
    \E sid \in SessionArgs, disk \in DiskOutcomes :
        SM_Add(sid, "assistant", "a", ChatMeta, clock, disk) /\ UNCHANGED notStore
DiskDelete ==
    \E sid \in SessionArgs, disk \in UnlinkOutcomes :
        SM_Delete(sid, disk) /\ UNCHANGED notStore
DiskClearAll ==
    \E left \in SUBSET DOMAIN files : SM_ClearAll(left) /\ UNCHANGED notStore

NextDisk ==
    DiskCreate \/ DiskAddAny \/ DiskDelete \/ DiskClearAll \/ PersistRestart
SpecDisk == InitPersist /\ [][NextDisk]_vars

IsAddOk(sid, role, content, metadata) ==
    HasSession(sessions, sid) /\ StoreAdd(sid, role, content, metadata)
\* the step is a successful add_message, whatever its arguments
AddReturned == resp'.op = "add_message" /\ resp'.res = "ok"

\* C7: a successful add_message lengthens that session's messages by exactly
\* one, the new {role, content} is the last element, every earlier message
\* keeps its content and position, and no other call (on this or any other
\* session) changes a stored session's messages.
C7_AppendOnly ==
    [][ /\ AddReturned =>
          \A sid \in Uuids, role \in Roles, content \in Contents,
             metadata \in Metas :
            IsAddOk(sid, role, content, metadata) =>
                LET old == sessions[sid].messages
                    new == sessions'[sid].messages
                IN  /\ Len(new) = Len(old) + 1
                    /\ new[Len(new)] = [role |-> role, content |-> content]
                    /\ \A i \in 1..Len(old) : new[i] = old[i]
                    /\ \A o \in DOMAIN sessions \ {sid} :
                           /\ o \in DOMAIN sessions'
                           /\ sessions'[o].messages = sessions[o].messages
        /\ ~AddReturned =>
            \A o \in DOMAIN sessions \cap DOMAIN sessions' :
                sessions'[o].messages = sessions[o].messages
      ]_vars

\* a second, different message was just appended to one session while
\* another session exists
C7_Witness ==
    /\ resp.op = "add_message" /\ resp.res = "ok"
    /\ Cardinality(DOMAIN sessions) = 2
    /\ \E sid \in DOMAIN sessions :
           /\ Len(sessions[sid].messages) = 2
           /\ sessions[sid].messages[1] # sessions[sid].messages[2]

\* ======================================================= agent_runner.py
\* A connection object (MCPServerStdio) is one of Handles. srv[h] is
\*   "unborn"   not constructed yet
\*   "created"  constructed, __aenter__ not finished
\*   "live"     __aenter__ returned: the tool subprocess runs
\*   "dead"     __aenter__ raised: no subprocess was left behind
\*   "closed"   __aexit__ returned
\*   "aborted"  __aexit__ raised
CanConstruct == \E h \in Handles : srv[h] = "unborn"
NewHandle ==
    CHOOSE h \in Handles :
        srv[h] = "unborn" /\ \A o \in Handles : srv[o] = "unborn" => h <= o

Live == {h \in Handles : srv[h] = "live"}
Idle(t) == pc[t] = "idle"
AllIdle == \A t \in Tasks : Idle(t)

BuildInputAsList(user_message, conversation_items) ==
    [kind |-> "list", text |-> "",
     items |-> Append(conversation_items.items, UserMsg(user_message))]
BuildInputNewestFirst(user_message, conversation_items) ==
    IF conversation_items.kind = "none"
    THEN [kind |-> "str", text |-> user_message, items |-> <<>>]
    ELSE [kind |-> "list", text |-> "",
          items |-> <<UserMsg(user_message)>> \o conversation_items.items]
\* run_turn lines 139-144: a bare string without history, else a copy of the
\* history with the user message appended
BuildInput(user_message, conversation_items) ==
    IF conversation_items.kind = "none"
    THEN [kind |-> "str", text |-> user_message, items |-> <<>>]
    ELSE [kind |-> "list", text |-> "",
          items |-> Append(conversation_items.items, UserMsg(user_message))]

\* initialize, line 75: already initialized
AR_InitReturn(t) ==
    /\ Idle(t)
    /\ mcp_server # None
    /\ resp' = Done("initialize", "returned", NoId, "")
    /\ UNCHANGED <<mcp_server, agent_instance, srv, pc, loc>>

\* initialize, lines 79-108: building the agent or the connection object
\* raises before self.mcp_server is assigned
AR_InitFail(t) ==
    /\ Idle(t)
    /\ mcp_server = None
    /\ resp' = Done("initialize", "AgentRunnerError", NoId, "")
    /\ UNCHANGED <<mcp_server, agent_instance, srv, pc, loc>>

\* initialize, lines 79-109: self.mcp_server = MCPServerStdio(...), then the
\* coroutine waits in __aenter__
AR_InitStart(t) ==
    /\ Idle(t)
    /\ mcp_server = None
    /\ CanConstruct
    /\ mcp_server' = NewHandle
    /\ srv' = [srv EXCEPT ![NewHandle] = "created"]
    /\ pc' = [pc EXCEPT ![t] = "initialize_aenter"]
    /\ loc' = [loc EXCEPT ![t] = [NoLoc EXCEPT !.h = NewHandle]]
    /\ UNCHANGED <<agent_instance, resp>>

\* agent.build(server): an Agent over that connection. The agent is known
\* by the connection it is bound to; one built over None (cleanup cleared
\* self.mcp_server during the wait of line 109) is an Agent all the same
Serverless == -2
build(server) == IF server = None THEN Serverless ELSE server

\* initialize, lines 109-115: __aenter__ raises, or returns and agent.build
\* raises, or both succeed and agent_instance is bound to self.mcp_server
\* as it is after the wait
InitOutcomes == {"aenter_raises", "build_raises", "ok"}
AR_InitResume(t, outcome) ==
    /\ pc[t] = "initialize_aenter"
    /\ pc' = [pc EXCEPT ![t] = "idle"]
    /\ loc' = [loc EXCEPT ![t] = NoLoc]
    /\ UNCHANGED mcp_server
    /\ srv' = [srv EXCEPT ![loc[t].h] =
                  IF outcome = "aenter_raises" THEN "dead" ELSE "live"]
    /\ agent_instance' = IF outcome = "ok" THEN build(mcp_server)
                         ELSE agent_instance
    /\ resp' = Done("initialize",
                    IF outcome = "ok" THEN "returned" ELSE "AgentRunnerError",
                    NoId, "")

\* run_turn, lines 135-148: not initialized, or the input is built and the
\* coroutine waits in Runner.run
AR_RunCall(t, user_message, conversation_items) ==
    /\ Idle(t)
    /\ IF agent_instance = None
       THEN /\ resp' = Done("run_turn", "AgentRunnerError: not initialized", NoId, "")
            /\ UNCHANGED <<pc, loc>>
       ELSE /\ pc' = [pc EXCEPT ![t] = "run_turn_run"]
            /\ loc' = [loc EXCEPT ![t] =
                   [h |-> agent_instance, sid |-> NoId, msg |-> user_message,
                    input |-> BuildInput(user_message, conversation_items)]]
            /\ UNCHANGED resp
    /\ UNCHANGED <<mcp_server, agent_instance, srv>>

\* run_turn, lines 148-179: Runner.run raises, or returns final_output
RunOutcomes == {"raises", "ok"}
AR_RunResume(t, outcome, final_text) ==
    /\ pc[t] = "run_turn_run"
    /\ pc' = [pc EXCEPT ![t] = "idle"]
    /\ loc' = [loc EXCEPT ![t] = NoLoc]
    /\ resp' = IF outcome = "ok"
               THEN Done("run_turn", "returned", NoId, final_text)
               ELSE Done("run_turn", "AgentRunnerError: execution failed", NoId, "")
    /\ UNCHANGED <<mcp_server, agent_instance, srv>>

\* cleanup, lines 200-208, is cut at its await. Line 202 tests
\* self.mcp_server; when it is set the coroutine waits in __aexit__ of that
\* connection (line 204) and other calls on the runner go on meanwhile
AR_CleanupCall(t) ==
    /\ Idle(t)
    /\ IF mcp_server # None
       THEN /\ pc' = [pc EXCEPT ![t] = "cleanup_aexit"]
            /\ loc' = [loc EXCEPT ![t] = [NoLoc EXCEPT !.h = mcp_server]]
            /\ UNCHANGED resp
       ELSE /\ resp' = Done("cleanup", "returned", NoId, "")
            /\ UNCHANGED <<pc, loc>>
    /\ UNCHANGED <<mcp_server, agent_instance, srv>>

\* lines 204-208: __aexit__ returns, or raises and the error is printed;
\* either way both fields are cleared, whatever they hold by now
CleanupOutcomes == {"ok", "raises"}
AR_CleanupResume(t, outcome) ==
    /\ pc[t] = "cleanup_aexit"
    /\ pc' = [pc EXCEPT ![t] = "idle"]
    /\ loc' = [loc EXCEPT ![t] = NoLoc]
    /\ srv' = [srv EXCEPT ![loc[t].h] =
                  IF outcome = "ok" THEN "closed" ELSE "aborted"]
    /\ mcp_server' = None
    /\ agent_instance' = None
    /\ resp' = Done("cleanup", "returned", NoId, "")

\* ----------------------------------------------------------- SpecRunner
notRunner == <<sessions, order, issued, clock, files, persist_dir, _agent_instance, _server_cm,
               _agent_lock, phase, _agent_runner, turns, callVars>>

\* what callers hand to run_turn as conversation_items
SomeItems ==
    {NoItems,
     [kind |-> "list", items |-> <<>>],
     [kind |-> "list", items |-> <<UserMsg("a"), [role |-> "assistant", content |-> "b"]>>]}

RunnerInitReturn == \E t \in Tasks : AR_InitReturn(t) /\ UNCHANGED notRunner
RunnerInitFail == \E t \in Tasks : AR_InitFail(t) /\ UNCHANGED notRunner
RunnerInitStart == \E t \in Tasks : AR_InitStart(t) /\ UNCHANGED notRunner
RunnerInitResume ==
    \E t \in Tasks, outcome \in InitOutcomes :
        AR_InitResume(t, outcome) /\ UNCHANGED notRunner
RunnerRunCall ==
    \E t \in Tasks, m \in Contents, items \in SomeItems :
        AR_RunCall(t, m, items) /\ UNCHANGED notRunner
RunnerRunResume ==
    \E t \in Tasks, outcome \in RunOutcomes, text \in Contents :
        AR_RunResume(t, outcome, text) /\ UNCHANGED notRunner
RunnerCleanupCall == \E t \in Tasks : AR_CleanupCall(t) /\ UNCHANGED notRunner
RunnerCleanupResume ==
    \E t \in Tasks, outcome \in CleanupOutcomes :
        AR_CleanupResume(t, outcome) /\ UNCHANGED notRunner

NextRunner ==
    \/ RunnerInitReturn \/ RunnerInitFail \/ RunnerInitStart \/ RunnerInitResume
    \/ RunnerRunCall \/ RunnerRunResume
    \/ RunnerCleanupCall \/ RunnerCleanupResume
SpecRunner == InitCommon /\ [][NextRunner]_vars

\* ================================================= python-agent/server.py
\* bool(x) of an optional list and of an optional string: None, [] and ""
\* are falsy
TruthyList(list) == list.kind = "list" /\ list.items # <<>>
TruthyStr(str) == str # NoPrompt /\ str # ""

\* lines 114-121: the list the local name conversation is bound to before
\* line 122 appends to it
\* ChatMessage.model_dump(): the dict of the two fields
model_dump(message) == [role |-> message.role, content |-> message.content]
Dumped(messages) == [i \in 1..Len(messages) |-> model_dump(messages[i])]

BuildPrefixPromptFirst(payload) ==
    (IF TruthyStr(payload.prompt)
     THEN <<[role |-> "system", content |-> payload.prompt]>>
     ELSE <<>>) \o
    (IF TruthyList(payload.conversation)
     THEN payload.conversation.items ELSE Dumped(payload.messages))
BuildPrefix(payload) ==
    IF TruthyList(payload.conversation)
    THEN payload.conversation.items
    ELSE (IF TruthyStr(payload.prompt)
          THEN <<[role |-> "system", content |-> payload.prompt]>>
          ELSE <<>>) \o Dumped(payload.messages)

\* lines 113-123. Two list objects are involved: the caller's
\* payload.conversation ("arg") and the one the local name is bound to
\* ("local"), which line 115 makes as a copy, list(payload.conversation), or
\* line 117 as a new list. Line 122 appends to "local", which is returned.
BuildObjects(payload) ==
    [arg |-> payload.conversation,
     local |-> Append(BuildPrefix(payload), UserMsg(payload.input))]

_build_agent_input(payload) ==
    [kind |-> "list", text |-> "", items |-> BuildObjects(payload).local]

\* line 155: the readiness test that follows _ensure_agent_initialized
ChatGate(instance) == IF instance = None THEN "503" ELSE "go"

NoStartup == \A t \in Tasks : pc[t] # "startup_aenter"

\* _ensure_agent_initialized, lines 93-95: _server_cm is assigned a new
\* connection object and the caller waits in its __aenter__
EnsureStart(t, waiting, agent_input) ==
    /\ _agent_instance = None
    /\ CanConstruct
    /\ _server_cm' = NewHandle
    /\ srv' = [srv EXCEPT ![NewHandle] = "created"]
    /\ pc' = [pc EXCEPT ![t] = waiting]
    /\ loc' = [loc EXCEPT ![t] =
           [NoLoc EXCEPT !.h = NewHandle, !.input = agent_input]]
    /\ UNCHANGED <<_agent_instance, _agent_lock, resp>>

\* chat, lines 161-164: async with _agent_lock, then Runner.run on the
\* agent the global names at that moment. The caller is suspended when the
\* lock is taken, and also when it is free but an earlier caller is queued
EnterLock(t, instance, agent_input) ==
    IF CanAcquire(_agent_lock)
    THEN /\ _agent_lock' = [_agent_lock EXCEPT !.locked = TRUE]
         /\ pc' = [pc EXCEPT ![t] = "chat_run"]
         /\ loc' = [loc EXCEPT ![t] =
                [NoLoc EXCEPT !.h = instance, !.input = agent_input]]
    ELSE /\ _agent_lock' = [_agent_lock EXCEPT
                                !.waiters = Append(_agent_lock.waiters, t)]
         /\ pc' = [pc EXCEPT ![t] = "chat_lock"]
         /\ loc' = [loc EXCEPT ![t] =
                [NoLoc EXCEPT !.input = agent_input]]

\* _startup, lines 99-101, with _ensure_agent_initialized lines 88-96.
\* Requests are served once startup is over, so it begins with no request
\* pending and no request begins while it waits.
SV_StartupReturn(t) ==
    /\ AllIdle
    /\ _agent_instance # None
    /\ resp' = Done("startup", "returned", NoId, "")
    /\ UNCHANGED <<_agent_instance, _server_cm, _agent_lock, srv, pc, loc>>

SV_StartupFail(t) ==
    /\ AllIdle
    /\ _agent_instance = None
    /\ resp' = Done("startup", "raised", NoId, "")
    /\ UNCHANGED <<_agent_instance, _server_cm, _agent_lock, srv, pc, loc>>

SV_StartupStart(t) ==
    /\ AllIdle
    /\ EnsureStart(t, "startup_aenter", NoInput)

SV_StartupResume(t, outcome) ==
    /\ pc[t] = "startup_aenter"
    /\ pc' = [pc EXCEPT ![t] = "idle"]
    /\ loc' = [loc EXCEPT ![t] = NoLoc]
    /\ srv' = [srv EXCEPT ![loc[t].h] =
                  IF outcome = "aenter_raises" THEN "dead" ELSE "live"]
    /\ _agent_instance' = IF outcome = "ok" THEN loc[t].h ELSE _agent_instance
    /\ resp' = Done("startup", IF outcome = "ok" THEN "returned" ELSE "raised",
                    NoId, "")
    /\ UNCHANGED <<_server_cm, _agent_lock>>

\* chat, lines 153-164, the agent being there already
SV_ChatReady(t, payload) ==
    /\ Idle(t) /\ NoStartup
    /\ _agent_instance # None
    /\ IF ChatGate(_agent_instance) = "503"
       THEN /\ resp' = Done("chat", "503", NoId, "")
            /\ UNCHANGED <<_agent_lock, pc, loc>>
       ELSE /\ EnterLock(t, _agent_instance, _build_agent_input(payload))
            /\ UNCHANGED resp
    /\ UNCHANGED <<_agent_instance, _server_cm, srv>>

\* chat, line 154: _ensure_agent_initialized raises at lines 93-94; nothing
\* in chat handles it
SV_ChatInitFail(t, payload) ==
    /\ Idle(t) /\ NoStartup
    /\ _agent_instance = None
    /\ resp' = Done("chat", "500", NoId, "")
    /\ UNCHANGED <<_agent_instance, _server_cm, _agent_lock, srv, pc, loc>>

\* chat, line 154: _ensure_agent_initialized starts a subprocess and waits
SV_ChatInitStart(t, payload) ==
    /\ Idle(t) /\ NoStartup
    /\ EnsureStart(t, "chat_aenter", _build_agent_input(payload))

\* chat, line 154 resumed (server.py lines 95-96), then lines 155-164
SV_ChatInitResume(t, outcome) ==
    /\ pc[t] = "chat_aenter"
    /\ srv' = [srv EXCEPT ![loc[t].h] =
                  IF outcome = "aenter_raises" THEN "dead" ELSE "live"]
    /\ _agent_instance' = IF outcome = "ok" THEN loc[t].h ELSE _agent_instance
    /\ IF outcome # "ok"
       THEN /\ resp' = Done("chat", "500", NoId, "")
            /\ pc' = [pc EXCEPT ![t] = "idle"]
            /\ loc' = [loc EXCEPT ![t] = NoLoc]
            /\ UNCHANGED _agent_lock
       ELSE IF ChatGate(_agent_instance') = "503"
            THEN /\ resp' = Done("chat", "503", NoId, "")
                 /\ pc' = [pc EXCEPT ![t] = "idle"]
                 /\ loc' = [loc EXCEPT ![t] = NoLoc]
                 /\ UNCHANGED _agent_lock
            ELSE /\ EnterLock(t, _agent_instance', loc[t].input)
                 /\ UNCHANGED resp
    /\ UNCHANGED _server_cm

\* chat, line 161: Lock.release wakes the first waiter only, which takes
\* the lock when it runs next; until then the lock is free and the waiter
\* still queued
SV_ChatLock(t) ==
    /\ pc[t] = "chat_lock"
    /\ ~_agent_lock.locked
    /\ _agent_lock.waiters # <<>> /\ Head(_agent_lock.waiters) = t
    /\ _agent_lock' = [locked |-> TRUE, waiters |-> Tail(_agent_lock.waiters)]
    /\ pc' = [pc EXCEPT ![t] = "chat_run"]
    /\ loc' = [loc EXCEPT ![t].h = _agent_instance]
    /\ UNCHANGED <<_agent_instance, _server_cm, srv, resp>>

\* chat, lines 164-181: Runner.run raises (500) or returns; the lock is
\* released either way
SV_ChatRunResume(t, outcome, final_output) ==
    /\ pc[t] = "chat_run"
    /\ _agent_lock' = [_agent_lock EXCEPT !.locked = FALSE]
    /\ pc' = [pc EXCEPT ![t] = "idle"]
    /\ loc' = [loc EXCEPT ![t] = NoLoc]
    /\ resp' = IF outcome = "ok"
               THEN Done("chat", "200", NoId, final_output)
               ELSE Done("chat", "500", NoId, "")
    /\ UNCHANGED <<_agent_instance, _server_cm, srv>>

\* _shutdown, lines 104-110, is cut at its await. Line 107 tests
\* _server_cm; when it is set the handler waits in __aexit__ of that
\* connection (line 108) and nothing in server.py holds requests back
\* meanwhile; when it is not, lines 109-110 run at once
SV_ShutdownCall(t) ==
    /\ Idle(t) /\ NoStartup
    /\ IF _server_cm # None
       THEN /\ pc' = [pc EXCEPT ![t] = "shutdown_aexit"]
            /\ loc' = [loc EXCEPT ![t] = [NoLoc EXCEPT !.h = _server_cm]]
            /\ UNCHANGED <<_server_cm, _agent_instance, resp>>
       ELSE /\ _server_cm' = None
            /\ _agent_instance' = None
            /\ resp' = Done("shutdown", "returned", NoId, "")
            /\ UNCHANGED <<pc, loc>>
    /\ UNCHANGED <<_agent_lock, srv>>

\* lines 108-110. __aexit__ is not guarded: when it raises, the two
\* assignments after it do not run; when it returns, both globals are
\* cleared, whatever they hold by now
SV_ShutdownResume(t, outcome) ==
    /\ pc[t] = "shutdown_aexit"
    /\ pc' = [pc EXCEPT ![t] = "idle"]
    /\ loc' = [loc EXCEPT ![t] = NoLoc]
    /\ srv' = [srv EXCEPT ![loc[t].h] =
                  IF outcome = "ok" THEN "closed" ELSE "aborted"]
    /\ _server_cm' = IF outcome = "ok" THEN None ELSE _server_cm
    /\ _agent_instance' = IF outcome = "ok" THEN None ELSE _agent_instance
    /\ resp' = Done("shutdown", IF outcome = "ok" THEN "returned" ELSE "raised",
                    NoId, "")
    /\ UNCHANGED _agent_lock

\* ----------------------------------------------------------- SpecServer
notServer == <<sessions, order, issued, clock, files, persist_dir, mcp_server, agent_instance, phase,
               _agent_runner, turns, callVars>>

ChatPayloads ==
    {Payload("a", NoPrompt, <<>>, NoneList),
     Payload("", "p", <<[role |-> "assistant", content |-> "b"]>>, List(<<>>)),
     Payload("b", "p", <<[role |-> "assistant", content |-> "b"]>>,
             List(<<UserMsg("a")>>))}

ServerStartupReturn == \E t \in Tasks : SV_StartupReturn(t) /\ UNCHANGED notServer
ServerStartupFail == \E t \in Tasks : SV_StartupFail(t) /\ UNCHANGED notServer
ServerStartupStart == \E t \in Tasks : SV_StartupStart(t) /\ UNCHANGED notServer
ServerStartupResume ==
    \E t \in Tasks, outcome \in InitOutcomes :
        SV_StartupResume(t, outcome) /\ UNCHANGED notServer
ServerChatReady ==
    \E t \in Tasks, payload \in ChatPayloads :
        SV_ChatReady(t, payload) /\ UNCHANGED notServer
ServerChatInitFail ==
    \E t \in Tasks, payload \in ChatPayloads :
        SV_ChatInitFail(t, payload) /\ UNCHANGED notServer
ServerChatInitStart ==
    \E t \in Tasks, payload \in ChatPayloads :
        SV_ChatInitStart(t, payload) /\ UNCHANGED notServer
ServerChatInitResume ==
    \E t \in Tasks, outcome \in InitOutcomes :
        SV_ChatInitResume(t, outcome) /\ UNCHANGED notServer
ServerChatLock == \E t \in Tasks : SV_ChatLock(t) /\ UNCHANGED notServer
ServerChatRunResume ==
    \E t \in Tasks, outcome \in RunOutcomes, text \in Contents :
        SV_ChatRunResume(t, outcome, text) /\ UNCHANGED notServer
ServerShutdownCall == \E t \in Tasks : SV_ShutdownCall(t) /\ UNCHANGED notServer
ServerShutdownResume ==
    \E t \in Tasks, outcome \in CleanupOutcomes :
        SV_ShutdownResume(t, outcome) /\ UNCHANGED notServer

NextServer ==
    \/ ServerStartupReturn \/ ServerStartupFail \/ ServerStartupStart
    \/ ServerStartupResume \/ ServerChatReady \/ ServerChatInitFail
    \/ ServerChatInitStart \/ ServerChatInitResume \/ ServerChatLock
    \/ ServerChatRunResume \/ ServerShutdownCall \/ ServerShutdownResume
SpecServer == InitCommon /\ [][NextServer]_vars

\* ------------------------------------------------------------ SpecBuild
\* _build_agent_input by itself: a caller holds a ChatRequest, calls the
\* function, and looks at the result and at its request afterwards.
MaxItems == 2        \* longest messages / conversation list of a request
MessagePool == {UserMsg("a"), [role |-> "assistant", content |-> "b"]}
Lists == UNION {[1..n -> MessagePool] : n \in 0..MaxItems}
BuildPayloads ==
    {Payload(input, prompt, messages, conversation) :
        input \in {"", "a"}, prompt \in {NoPrompt, "", "p"},
        messages \in Lists,
        conversation \in {NoneList} \cup {List(items) : items \in Lists}}

notCall == <<storeVars, runnerVars, srv, _agent_instance, _server_cm,
             _agent_lock, appVars, taskVars, turns>>

\* a request object reaches the caller
BuildArrive ==
    /\ resp.op # "arrive"
    /\ call_payload' \in BuildPayloads
    /\ call_result' = NoInput
    /\ resp' = Done("arrive", "none", NoId, "")
    /\ UNCHANGED notCall

\* agent_input = _build_agent_input(payload), line 162
BuildCall ==
    /\ resp.op = "arrive"
    /\ call_result' = _build_agent_input(call_payload)
    /\ call_payload' =
           [call_payload EXCEPT !.conversation = BuildObjects(call_payload).arg]
    /\ resp' = Done("_build_agent_input", "returned", NoId, "")
    /\ UNCHANGED notCall

NextBuild == BuildArrive \/ BuildCall
SpecBuild == InitCommon /\ [][NextBuild]_vars

\* ========================================================= backend/app.py
\* ChatRequest: session_id NoId stands for None or "", both falsy at line 163
Request(session_id, message) == [session_id |-> session_id, message |-> message]

\* line 157: not request.message or not request.message.strip()
IsBlank(message) == message \in {"", " "}

\* (result.final_output or "").strip(), agent_runner.py line 152
RawOutputs == {"None", " b ", "b"}
FinalText(raw) ==
    CASE raw = "None" -> ""
      [] raw = " b " -> "b"
      [] OTHER -> raw

\* The attributes an AgentRunner object has: the ones __init__ sets
\* (agent_runner.py lines 66-68). Reading any other one raises.
RunnerAttrs == {"common_tables", "mcp_server", "agent_instance"}
GetAttr(name) == IF name \in RunnerAttrs THEN "ok" ELSE "AttributeError"

\* lines 151-155: not _agent_runner or not _agent_runner._executor.agent_instance
AgentGate ==
    IF ~_agent_runner THEN "503"
    ELSE IF GetAttr("_executor") = "AttributeError" THEN "AttributeError"
    ELSE IF agent_instance = None THEN "503"
    ELSE "go"

\* line 132: _agent_runner is not None and
\*           _agent_runner._executor.agent_instance is not None
HealthValue ==
    IF ~_agent_runner THEN "false"
    ELSE IF GetAttr("_executor") = "AttributeError" THEN "AttributeError"
    ELSE IF agent_instance # None THEN "true"
    ELSE "false"

\* how many new ids lines 162-172 draw for this request
IdsNeeded(S, session_id) ==
    IF session_id = NoId THEN 1 ELSE IF HasSession(S, session_id) THEN 0 ELSE 2

\* lines 162-172: the session the turn runs on. For an id that is not in
\* the store, create_session() is called and its result dropped (line 169);
\* the supplied id is still not a key (line 171), so a second session is
\* created and its id is used (line 172).
ResolveSession(S, iss, session_id, now) ==
    IF session_id = NoId
    THEN [sessions |-> create_session(S, Fresh(iss), now),
          issued |-> iss \cup {Fresh(iss)}, sid |-> Fresh(iss)]
    ELSE IF HasSession(S, session_id)
    THEN [sessions |-> S, issued |-> iss, sid |-> session_id]
    ELSE LET id1 == Fresh(iss)
             S1 == create_session(S, id1, now)
             iss1 == iss \cup {id1}
         IN  IF HasSession(S1, session_id)
             THEN [sessions |-> S1, issued |-> iss1, sid |-> session_id]
             ELSE [sessions |-> create_session(S1, Fresh(iss1), now),
                   issued |-> iss1 \cup {Fresh(iss1)}, sid |-> Fresh(iss1)]

\* chat, lines 157-180, entered with the readiness test of line 151 passed:
\* 400 for a blank message; else the session is resolved, its history read
\* and run_turn called, which raises (500) or waits in Runner.run
MaxTurns == 2
CH_Begin(t, request) ==
    /\ Idle(t)
    /\ UNCHANGED <<mcp_server, agent_instance, srv, clock, files, persist_dir>>
    /\ IF IsBlank(request.message)
       THEN /\ resp' = Done("chat", "400", request.session_id, "")
            /\ UNCHANGED <<sessions, order, issued, pc, loc, turns>>
       ELSE /\ Cardinality(Uuids \ issued) >= IdsNeeded(sessions, request.session_id)
            /\ turns < MaxTurns
            /\ turns' = turns + 1
            /\ LET r == ResolveSession(sessions, issued, request.session_id,
                                     isoformat(clock))
                   items == get_conversation_items(r.sessions, r.sid)
               IN  /\ sessions' = r.sessions
                   /\ order' = keys(order, r.sessions)
                   /\ issued' = r.issued
                   /\ IF agent_instance = None
                      THEN /\ resp' = Done("chat", "500", request.session_id, "")
                           /\ UNCHANGED <<pc, loc>>
                      ELSE /\ pc' = [pc EXCEPT ![t] = "turn_run"]
                           /\ loc' = [loc EXCEPT ![t] =
                                  [h |-> agent_instance, sid |-> r.sid,
                                   msg |-> request.message,
                                   input |-> BuildInput(request.message, items)]]
                           /\ UNCHANGED resp

CH_ResumeUpserts(t, outcome, raw) ==
    /\ pc[t] = "turn_run"
    /\ pc' = [pc EXCEPT ![t] = "idle"]
    /\ loc' = [loc EXCEPT ![t] = NoLoc]
    /\ UNCHANGED <<mcp_server, agent_instance, srv, issued, clock, files, persist_dir, turns>>
    /\ IF outcome = "raises"
       THEN /\ resp' = Done("chat", "500", loc[t].sid, "")
            /\ UNCHANGED <<sessions, order>>
       ELSE /\ sessions' =
                 add_message(
                     add_message(
                         IF HasSession(sessions, loc[t].sid) THEN sessions
                         ELSE create_session(sessions, loc[t].sid,
                                             isoformat(clock)),
                         loc[t].sid, "user", loc[t].msg, NoneMeta,
                         isoformat(clock)),
                     loc[t].sid, "assistant", FinalText(raw), ChatMeta,
                     isoformat(clock))
            /\ order' = keys(order, sessions')
            /\ resp' = Done("chat", "200", loc[t].sid, FinalText(raw))
\* chat, lines 178-204 resumed: run_turn raises (500), or returns and the
\* two messages are stored; add_message raises ValueError when the session
\* is gone, which line 202 turns into a 500
CH_Resume(t, outcome, raw) ==
    /\ pc[t] = "turn_run"
    /\ pc' = [pc EXCEPT ![t] = "idle"]
    /\ loc' = [loc EXCEPT ![t] = NoLoc]
    /\ UNCHANGED <<mcp_server, agent_instance, srv, issued, clock, files, persist_dir, turns>>
    /\ IF outcome = "raises" \/ ~HasSession(sessions, loc[t].sid)
       THEN /\ resp' = Done("chat", "500", loc[t].sid, "")
            /\ UNCHANGED <<sessions, order>>
       ELSE /\ sessions' =
                 add_message(
                     add_message(sessions, loc[t].sid, "user", loc[t].msg,
                                 NoneMeta, isoformat(clock)),
                     loc[t].sid, "assistant", FinalText(raw), ChatMeta,
                     isoformat(clock))
            /\ order' = keys(order, sessions')
            /\ resp' = Done("chat", "200", loc[t].sid, FinalText(raw))

\* chat, lines 148-158 and on
APP_Chat(t, request) ==
    /\ phase = "serving"
    /\ IF AgentGate = "go"
       THEN CH_Begin(t, request)
       ELSE /\ Idle(t)
            /\ resp' = Done("chat",
                            IF AgentGate = "503" THEN "503" ELSE "500 AttributeError",
                            request.session_id, "")
            /\ UNCHANGED <<sessions, order, issued, clock, files, persist_dir, mcp_server, agent_instance,
                           srv, pc, loc, turns>>

\* health_check, lines 127-133
APP_Health ==
    /\ phase = "serving"
    /\ resp' = IF HealthValue = "AttributeError"
               THEN Done("health", "500 AttributeError", NoId, "")
               ELSE Done("health", "200", NoId, HealthValue)
    /\ UNCHANGED <<sessions, order, issued, clock, files, persist_dir, mcp_server, agent_instance, srv, pc, loc>>

\* create_session, lines 208-215
APP_CreateSession ==
    /\ phase = "serving"
    /\ Uuids \ issued # {}
    /\ sessions' = create_session(sessions, uuid4, isoformat(clock))
    /\ order' = keys(order, sessions')
    /\ issued' = issued \cup {uuid4}
    /\ resp' = Done("create_session", "200", uuid4, "")
    /\ UNCHANGED <<clock, files, persist_dir, mcp_server, agent_instance, srv, pc, loc>>

\* list_sessions, lines 218-236
APP_ListSessions ==
    /\ phase = "serving"
    /\ resp' = Done("list_sessions", "200", NoId, "")
    /\ UNCHANGED <<sessions, order, issued, clock, files, persist_dir, mcp_server,
                   agent_instance, srv, pc, loc>>

\* get_session, lines 239-255
APP_GetSession(sid) ==
    /\ phase = "serving"
    /\ resp' = Done("get_session", IF HasSession(sessions, sid) THEN "200" ELSE "404",
                    sid, "")
    /\ UNCHANGED <<sessions, order, issued, clock, files, persist_dir, mcp_server, agent_instance, srv, pc, loc>>

\* delete_session, lines 258-268
APP_DeleteSession(sid) ==
    /\ phase = "serving"
    /\ IF HasSession(sessions, sid)
       THEN /\ sessions' = delete_session(sessions, sid)
            /\ order' = keys(order, sessions')
            /\ resp' = Done("delete_session", "200", sid, "")
       ELSE /\ resp' = Done("delete_session", "404", sid, "")
            /\ UNCHANGED <<sessions, order>>
    /\ UNCHANGED <<issued, clock, files, persist_dir, mcp_server, agent_instance, srv, pc, loc>>

\* lifespan, lines 77-92: the managers are made and initialize() is called;
\* it raises at once (the runner is dropped, line 92) or waits in __aenter__
LifespanTask == 1
APP_StartupFail ==
    /\ phase = "boot"
    /\ AR_InitFail(LifespanTask)
    /\ phase' = "serving"
    /\ _agent_runner' = FALSE
    /\ UNCHANGED <<sessions, order, issued, clock, files, persist_dir>>

APP_StartupStart ==
    /\ phase = "boot"
    /\ AR_InitStart(LifespanTask)
    /\ phase' = "starting"
    /\ _agent_runner' = TRUE
    /\ UNCHANGED <<sessions, order, issued, clock, files, persist_dir>>

\* lifespan, lines 86-99: initialize() returns, or raises and line 92 drops
\* the runner; the application starts serving either way
APP_StartupResume(outcome) ==
    /\ phase = "starting"
    /\ AR_InitResume(LifespanTask, outcome)
    /\ phase' = "serving"
    /\ _agent_runner' = (outcome = "ok")
    /\ UNCHANGED <<sessions, order, issued, clock, files, persist_dir>>

\* lifespan, lines 101-105, after the server has stopped serving: cleanup()
\* when a runner is still named. The lifespan coroutine waits in cleanup
\* while the connection is torn down (phase "stopping")
APP_ShutdownStart ==
    /\ phase = "serving"
    /\ AllIdle
    /\ IF _agent_runner
       THEN /\ AR_CleanupCall(LifespanTask)
            /\ phase' = IF mcp_server # None THEN "stopping" ELSE "stopped"
       ELSE /\ phase' = "stopped"
            /\ resp' = Done("shutdown", "returned", NoId, "")
            /\ UNCHANGED <<mcp_server, agent_instance, srv, pc, loc>>
    /\ UNCHANGED <<sessions, order, issued, clock, files, persist_dir, _agent_runner>>

\* lines 104-105: cleanup() returns, whatever __aexit__ did
APP_ShutdownResume(outcome) ==
    /\ phase = "stopping"
    /\ AR_CleanupResume(LifespanTask, outcome)
    /\ phase' = "stopped"
    /\ UNCHANGED <<sessions, order, issued, clock, files, persist_dir, _agent_runner>>

\* -------------------------------------------------------------- SpecApp
Requests ==
    {Request(sid, m) : sid \in {NoId, Foreign} \cup issued, m \in ReqMessages}

AppStartupFail == APP_StartupFail /\ UNCHANGED <<serverVars, turns>>
AppStartupStart == APP_StartupStart /\ UNCHANGED <<serverVars, turns>>
AppStartupResume ==
    \E outcome \in InitOutcomes : APP_StartupResume(outcome) /\ UNCHANGED <<serverVars, turns>>
AppChat ==
    \E t \in Tasks, request \in Requests :
        APP_Chat(t, request) /\ UNCHANGED <<serverVars, appVars>>
AppHealth == APP_Health /\ UNCHANGED <<serverVars, appVars, turns>>
AppCreateSession == APP_CreateSession /\ UNCHANGED <<serverVars, appVars, turns>>
AppListSessions == APP_ListSessions /\ UNCHANGED <<serverVars, appVars, turns>>
AppGetSession ==
    \E sid \in SessionArgs : APP_GetSession(sid) /\ UNCHANGED <<serverVars, appVars, turns>>
AppDeleteSession ==
    \E sid \in SessionArgs :
        APP_DeleteSession(sid) /\ UNCHANGED <<serverVars, appVars, turns>>
AppShutdownStart == APP_ShutdownStart /\ UNCHANGED <<serverVars, turns>>
AppShutdownResume ==
    \E outcome \in CleanupOutcomes :
        APP_ShutdownResume(outcome) /\ UNCHANGED <<serverVars, turns>>

NextApp ==
    \/ AppStartupFail \/ AppStartupStart \/ AppStartupResume \/ AppChat
    \/ AppHealth \/ AppCreateSession \/ AppListSessions \/ AppGetSession
    \/ AppDeleteSession \/ AppShutdownStart \/ AppShutdownResume
SpecApp == InitCommon /\ [][NextApp]_vars

\* The readiness test of line 151 lets no request through, so no request of
\* SpecApp is ever waiting in run_turn: NextApp needs no step that resumes one.
AppNeverRunsATurn == \A t \in Tasks : pc[t] # "turn_run"

\* ------------------------------------------------------------- SpecTurn
\* The turn pipeline by itself: chat from line 157 on, over the store and a
\* runner whose initialize() has returned, with sessions created and
\* deleted through their endpoints meanwhile.
TurnBegin ==
    \E t \in Tasks, request \in Requests :
        CH_Begin(t, request) /\ UNCHANGED <<serverVars, appVars>>
TurnResume ==
    \E t \in Tasks, outcome \in RunOutcomes, raw \in RawOutputs :
        CH_Resume(t, outcome, raw) /\ UNCHANGED <<serverVars, appVars, turns>>

InitTurn ==
    /\ sessions = <<>>
    /\ order = <<>>
    /\ issued = {}
    /\ clock = 0
    /\ files = <<>>
    /\ persist_dir = FALSE
    /\ mcp_server = 1
    /\ agent_instance = 1
    /\ srv = [h \in Handles |-> IF h = 1 THEN "live" ELSE "unborn"]
    /\ _agent_instance = None
    /\ _server_cm = None
    /\ _agent_lock = Unlocked
    /\ phase = "serving"
    /\ _agent_runner = TRUE
    /\ pc = [t \in Tasks |-> "idle"]
    /\ loc = [t \in Tasks |-> NoLoc]
    /\ resp = NoResp
    /\ turns = 0
    /\ call_payload = NoPayload
    /\ call_result = NoInput
NextTurn == TurnBegin \/ TurnResume \/ AppCreateSession \/ AppDeleteSession
SpecTurn == InitTurn /\ [][NextTurn]_vars

\* =============================================================== claims
InFlight == {t \in Tasks : pc[t] \in {"run_turn_run", "turn_run", "chat_run"}}

\* C1: at most one Runner.run call against the shared agent is in flight at
\* any time, in server.py (/chat) and in the backend (run_turn).
C1_OneRunInFlight == Cardinality(InFlight) <= 1

\* C2: concurrent _ensure_agent_initialized calls that find the agent
\* missing make one subprocess start attempt between them: no two
\* connection objects are waiting in __aenter__ at once.
C2_OneStartAttempt == Cardinality({h \in Handles : srv[h] = "created"}) <= 1

\* C3: at most one tool subprocess is started and not yet torn down.
C3_OneLiveSubprocess == Cardinality(Live) <= 1

\* a step in which AgentRunner.initialize raises AgentRunnerError
InitializeRaises(t) ==
    \/ AR_InitFail(t)
    \/ AR_InitResume(t, "aenter_raises")
    \/ AR_InitResume(t, "build_raises")

\* C4: whenever AgentRunner.initialize raises, the runner is left
\* uninitialized: mcp_server and agent_instance are both None.
C4_FailedInitializeLeavesNothing ==
    [][ \A t \in Tasks :
            InitializeRaises(t) => mcp_server' = None /\ agent_instance' = None
      ]_vars

\* C5: when tearing the connection down raises during shutdown, the caller
\* sees no error and the handle is cleared, in AgentRunner.cleanup and in
\* server.py _shutdown.
C5_ShutdownSwallowsAndClears ==
    [][ /\ \A t \in Tasks :
              AR_CleanupResume(t, "raises") =>
                  /\ resp'.res = "returned"
                  /\ mcp_server' = None /\ agent_instance' = None
        /\ \A t \in Tasks :
              SV_ShutdownResume(t, "raises") =>
                  /\ resp'.res = "returned"
                  /\ _server_cm' = None /\ _agent_instance' = None
      ]_vars

\* a chat request that starts a subprocess connection
ChatStartsInit ==
    \E t \in Tasks, request \in Requests :
        /\ ~IsBlank(request.message)
        /\ APP_Chat(t, request)
        /\ \E h \in Handles : srv[h] = "unborn" /\ srv'[h] # "unborn"
        /\ UNCHANGED <<serverVars, appVars>>

\* C6: a backend whose startup initialization failed stays retryable: while
\* it serves, some chat request starts a new initialization attempt.
C6_NotReadyIsRetryable ==
    (phase = "serving" /\ ~_agent_runner /\ CanConstruct) => ENABLED ChatStartsInit

\* C8: with the agent initialized, a chat request with a non-empty message
\* goes on to the agent, and when the run returns the response is a success
\* and its session gains {user, message} followed by {assistant, text}.
C8_ChatTurnSucceeds ==
    [][ /\ \A t \in Tasks, request \in Requests :
              ( /\ _agent_runner /\ agent_instance # None
                /\ ~IsBlank(request.message)
                /\ APP_Chat(t, request) ) => pc'[t] = "turn_run"
        /\ \A t \in Tasks, raw \in RawOutputs :
              (CH_Resume(t, "ok", raw) /\ HasSession(sessions, loc[t].sid)) =>
                  /\ resp'.res = "200"
                  /\ sessions'[resp'.sid].messages =
                         sessions[resp'.sid].messages \o
                             <<UserMsg(loc[t].msg),
                               [role |-> "assistant", content |-> resp'.text]>>
      ]_vars

\* C9: a chat request naming a session id that is not in the store creates
\* exactly one session, under the supplied id, and the turn uses that id.
C9_ImplicitSessionKeepsId ==
    [][ \A t \in Tasks, request \in Requests :
            ( /\ _agent_runner /\ agent_instance # None
              /\ ~IsBlank(request.message)
              /\ request.session_id # NoId
              /\ ~HasSession(sessions, request.session_id)
              /\ APP_Chat(t, request) ) =>
                /\ DOMAIN sessions' = DOMAIN sessions \cup {request.session_id}
                /\ pc'[t] = "turn_run"
                /\ loc'[t].sid = request.session_id
      ]_vars

\* a turn that has just been submitted on a session without messages
FirstTurnBegins(t, request) ==
    /\ pc[t] = "idle" /\ pc'[t] = "turn_run"
    /\ loc'[t].msg = request.message
    /\ sessions'[loc'[t].sid].messages = <<>>
    /\ CH_Begin(t, request)

\* C10 as claimed: on a session without stored messages the agent is given
\* the one-element sequence [{user, m}].
C10_FirstTurnInputIsOneMessage ==
    [][ \A t \in Tasks : pc'[t] # pc[t] =>
          \A request \in Requests :
            FirstTurnBegins(t, request) =>
                loc'[t].input =
                    [kind |-> "list", text |-> "",
                     items |-> <<UserMsg(request.message)>>]
      ]_vars

\* C10 amended: on a session without stored messages run_turn gets no
\* history (None) and gives the agent the bare string m.
C10_FirstTurnInputIsBareString ==
    [][ \A t \in Tasks : pc'[t] # pc[t] =>
          \A request \in Requests :
            FirstTurnBegins(t, request) =>
                loc'[t].input =
                    [kind |-> "str", text |-> request.message, items |-> <<>>]
      ]_vars

\* a turn is waiting in Runner.run on a session that holds no message
C10_Witness ==
    \E t \in Tasks :
        /\ pc[t] = "turn_run"
        /\ HasSession(sessions, loc[t].sid)
        /\ sessions[loc[t].sid].messages = <<>>
        /\ loc[t].input.kind = "str"
        /\ loc[t].input.text = loc[t].msg

\* a turn is submitted on a session that holds messages when the request
\* arrives
LaterTurnBegins(t, request) ==
    /\ pc[t] = "idle" /\ pc'[t] = "turn_run"
    /\ loc'[t].msg = request.message
    /\ HasSession(sessions, request.session_id)
    /\ sessions[request.session_id].messages # <<>>
    /\ CH_Begin(t, request)

\* C11: for a chat turn with message m on a session whose stored messages
\* are the non-empty sequence h, the input given to the agent is h, in stored
\* order and unmodified, followed by {user, m}; the stored messages stay as
\* they were.
C11_LaterTurnInputIsHistoryThenMessage ==
    [][ \A t \in Tasks : pc'[t] # pc[t] =>
          \A request \in Requests :
            LaterTurnBegins(t, request) =>
                /\ loc'[t].sid = request.session_id
                /\ loc'[t].input =
                       [kind |-> "list", text |-> "",
                        items |-> sessions[request.session_id].messages \o
                                      <<UserMsg(request.message)>>]
                /\ sessions' = sessions
      ]_vars

\* a second turn is waiting in Runner.run with the first turn's two messages
\* and its own message as input
C11_Witness ==
    \E t \in Tasks :
        /\ pc[t] = "turn_run"
        /\ HasSession(sessions, loc[t].sid)
        /\ Len(sessions[loc[t].sid].messages) = 2
        /\ loc[t].input.kind = "list"
        /\ loc[t].input.items =
               sessions[loc[t].sid].messages \o <<UserMsg(loc[t].msg)>>

\* C12: an add_message with role assistant and a metadata summary sets
\* last_response to exactly the supplied tools, tokens and time_ms (an entry
\* the summary lacks gets its default, never the stored value); with role
\* user, or without metadata, last_response stays as it was. No other
\* session's metadata changes.
C12_LastResponseIsReplaced ==
    [][ AddReturned =>
          \A sid \in Uuids, role \in Roles, content \in Contents,
             metadata \in Metas :
            IsAddOk(sid, role, content, metadata) =>
                LET old == sessions[sid].metadata.last_response
                    new == sessions'[sid].metadata.last_response
                IN  /\ (role = "assistant" /\ Truthy(metadata)) =>
                           /\ new.tools = IF metadata.tools = Missing
                                          THEN "{}" ELSE metadata.tools
                           /\ new.tokens = IF metadata.tokens = Missing
                                           THEN "{}" ELSE metadata.tokens
                           /\ new.time_ms = IF metadata.time_ms = NoTime
                                            THEN 0 ELSE metadata.time_ms
                    /\ (role = "user" \/ ~Truthy(metadata)) => new = old
                    /\ \A o \in DOMAIN sessions \ {sid} :
                           sessions'[o].metadata = sessions[o].metadata
      ]_vars

\* a session got two assistant messages and holds the summary of a call
\* that supplied tools only: tokens and time_ms are the defaults
C12_Witness ==
    /\ resp.op = "add_message" /\ resp.res = "ok"
    /\ \E sid \in DOMAIN sessions :
           /\ Len(sessions[sid].messages) = 2
           /\ \A i \in 1..2 : sessions[sid].messages[i].role = "assistant"
           /\ sessions[sid].metadata.last_response = Summary("q2", "{}", 0)

\* key a stands before key b in the dict
KeyBefore(ord, a, b) ==
    \E i, j \in 1..Len(ord) : i < j /\ ord[i] = a /\ ord[j] = b

\* where session id stands in a listing
Pos(listing, id) == CHOOSE i \in 1..Len(listing) : listing[i].session_id = id

\* a listing of store S holds every session of S once, as stored, and no
\* entry has an updated_at below that of a later entry
ListsEverySessionDescending(S, ord) ==
    LET listing == list_sessions(S, ord)
    IN  /\ Len(listing) = Cardinality(DOMAIN S)
        /\ \A id \in DOMAIN S : \E i \in 1..Len(listing) : listing[i] = S[id]
        /\ \A i, j \in 1..Len(listing) :
               i < j => ~StrLess(listing[i].updated_at, listing[j].updated_at)

\* C13 as claimed: right after add_message updates session B, list_sessions
\* puts B before every session A that an earlier add_message updated; and
\* every listing holds each session once, by updated_at descending.
C13_LaterUpdateListsFirst ==
    [][ /\ ListsEverySessionDescending(sessions', order')
        /\ AddReturned =>
             \A B \in Uuids, tick \in Ticks :
               (HasSession(sessions, B) /\ ClockAdd(B, tick)) =>
                   \A A \in DOMAIN sessions \ {B} :
                       sessions[A].messages # <<>> =>
                           Pos(list_sessions(sessions', order'), B) <
                               Pos(list_sessions(sessions', order'), A)
      ]_vars

\* C13 amended: right after add_message updates session B at clock reading
\* tick, list_sessions puts B before every session whose updated_at was
\* taken at an earlier reading; a session with the same updated_at keeps its
\* place from the dict's insertion order, before B if its key stands before
\* B's in the dict. Every listing holds each session once, by updated_at descending.
C13_StrictlyLaterUpdateListsFirst ==
    [][ /\ ListsEverySessionDescending(sessions', order')
        /\ AddReturned =>
             \A B \in Uuids, tick \in Ticks :
               (HasSession(sessions, B) /\ ClockAdd(B, tick)) =>
                   LET listing == list_sessions(sessions', order')
                   IN  \A A \in DOMAIN sessions \ {B} :
                         /\ (\E earlier \in 0..(tick - 1) :
                                sessions[A].updated_at = isoformat(earlier))
                               => Pos(listing, B) < Pos(listing, A)
                         /\ sessions[A].updated_at = isoformat(tick)
                               => (Pos(listing, A) < Pos(listing, B)
                                      <=> KeyBefore(order', A, B))
      ]_vars

\* session 2 was created after session 1 and updated at a later reading, and
\* is listed first
C13_Witness ==
    /\ resp.op = "add_message" /\ resp.res = "ok"
    /\ DOMAIN sessions = {1, 2}
    /\ sessions[1].messages # <<>> /\ sessions[2].messages # <<>>
    /\ StrLess(sessions[1].updated_at, sessions[2].updated_at)
    /\ list_sessions(sessions, order) = <<sessions[2], sessions[1]>>

\* the step is delete_session(sid) on the store
IsDelete(sid) == SM_Delete(sid, "ok") /\ UNCHANGED notStore

\* C14: delete_session on an id that is not in the store returns False and
\* leaves the session table and the snapshot files as they were; on an id
\* that is in the store it returns True, the id is no longer found, every
\* other session and snapshot is unchanged, and the id has no snapshot file.
C14_DeleteRemovesOnlyThatSession ==
    [][ resp'.op = "delete_session" =>
          \A sid \in SessionArgs :
            IsDelete(sid) =>
                IF HasSession(sessions, sid)
                THEN /\ resp'.res = "True"
                     /\ ~HasSession(sessions', sid)
                     /\ DOMAIN sessions' = DOMAIN sessions \ {sid}
                     /\ \A o \in DOMAIN sessions' : sessions'[o] = sessions[o]
                     /\ sid \notin DOMAIN files'
                     /\ DOMAIN files' = DOMAIN files \ {sid}
                     /\ \A o \in DOMAIN files' : files'[o] = files[o]
                ELSE /\ resp'.res = "False"
                     /\ sessions' = sessions
                     /\ files' = files
      ]_vars

\* of two sessions saved to disk one was just deleted: the other one and its
\* snapshot are what is left
C14_Witness ==
    /\ resp.op = "delete_session" /\ resp.res = "True"
    /\ persist_dir
    /\ Cardinality(issued) = 2
    /\ Cardinality(DOMAIN sessions) = 1
    /\ DOMAIN files = DOMAIN sessions
    /\ \A id \in DOMAIN sessions : sessions[id].messages # <<>>

\* C15: add_message on a session id that is not in the store raises
\* ValueError and leaves the store as it was: no session appears, and no
\* session's messages, metadata or updated_at change.
C15_AddToUnknownSessionRaises ==
    [][ resp'.op = "add_message" =>
          \A sid \in SessionArgs, role \in Roles, content \in Contents,
             metadata \in Metas :
            (~HasSession(sessions, sid) /\ StoreAdd(sid, role, content, metadata))
                => /\ resp'.res = "ValueError"
                   /\ sessions' = sessions
                   /\ files' = files
      ]_vars

\* add_message has just raised ValueError on a store that holds a session
\* with a message
C15_Witness ==
    /\ resp.op = "add_message" /\ resp.res = "ValueError"
    /\ \E id \in DOMAIN sessions : sessions[id].messages # <<>>

\* C16: create_session returns an id that no earlier call returned and that
\* is not in the store; the new session is stored under it with no message
\* and created_at equal to updated_at, and every session that was there is
\* unchanged.
C16_CreateMakesFreshEmptySession ==
    [][ resp'.op = "create_session" =>
          \E id \in Uuids :
            /\ id \notin issued
            /\ ~HasSession(sessions, id)
            /\ issued' = issued \cup {id}
            /\ DOMAIN sessions' = DOMAIN sessions \cup {id}
            /\ sessions'[id].session_id = id
            /\ sessions'[id].messages = <<>>
            /\ sessions'[id].created_at = sessions'[id].updated_at
            /\ sessions'[id].created_at = isoformat(clock')
            /\ \A o \in DOMAIN sessions : sessions'[o] = sessions[o]
      ]_vars

\* a second session was just created, at a later clock reading than the
\* first one, which holds a message
C16_Witness ==
    /\ resp.op = "create_session"
    /\ Cardinality(issued) = 2
    /\ DOMAIN sessions = {1, 2}
    /\ sessions[1].messages # <<>>
    /\ sessions[2].messages = <<>>
    /\ StrLess(sessions[1].updated_at, sessions[2].created_at)
    /\ sessions[2].created_at = sessions[2].updated_at

\* C17: every session is stored under its own session_id and its updated_at
\* is never earlier than its created_at; across every call that changes the
\* store, for a clock that does not go backwards, a session that stays keeps
\* its session_id and created_at and its updated_at does not decrease. A
\* store loaded from its snapshots holds every session under its own id.
C17_IdAndTimestampsAreStable ==
    [][ /\ \A id \in DOMAIN sessions' :
               /\ sessions'[id].session_id = id
               /\ ~StrLess(sessions'[id].updated_at, sessions'[id].created_at)
        /\ resp'.op # "__init__" =>
               \A id \in DOMAIN sessions \cap DOMAIN sessions' :
                   /\ sessions'[id].session_id = sessions[id].session_id
                   /\ sessions'[id].created_at = sessions[id].created_at
                   /\ ~StrLess(sessions'[id].updated_at, sessions[id].updated_at)
      ]_vars

\* a store was just loaded from its snapshots, and one of its sessions was
\* updated at a later clock reading than it was created
C17_Witness ==
    /\ resp.op = "__init__"
    /\ persist_dir
    /\ \E id \in DOMAIN sessions :
           /\ sessions[id].messages # <<>>
           /\ StrLess(sessions[id].created_at, sessions[id].updated_at)

\* startup initialization fails in this step: lifespan of app.py, or the
\* startup event of server.py
AppInitFailsAtStartup ==
    \/ APP_StartupFail
    \/ \E outcome \in InitOutcomes \ {"ok"} : APP_StartupResume(outcome)
ServerInitFailsAtStartup ==
    \E t \in Tasks :
        \/ SV_StartupFail(t)
        \/ \E outcome \in InitOutcomes \ {"ok"} : SV_StartupResume(t, outcome)

\* the backend serves without an agent: the session endpoints and /health can
\* all answer
AppServesDegraded ==
    /\ phase = "serving" /\ ~_agent_runner
    /\ HealthValue = "false"
    /\ (Uuids \ issued # {}) => ENABLED AppCreateSession
    /\ ENABLED AppListSessions
    /\ ENABLED AppGetSession
    /\ ENABLED AppDeleteSession
    /\ ENABLED AppHealth

\* C18: when agent initialization fails during startup, startup completes
\* all the same: the startup routine does not raise, and the backend then
\* serves its session endpoints and reports agent_initialized false.
C18_StartupSurvivesInitFailure ==
    [][ /\ ServerInitFailsAtStartup => resp'.res = "returned"
        /\ AppInitFailsAtStartup => AppServesDegraded'
      ]_vars

\* backend/app.py by itself does start degraded
AppStartsDegraded == [][AppInitFailsAtStartup => AppServesDegraded']_vars

\* C19: GET /health always answers 200, with agent_initialized true exactly
\* when a runner exists and its agent_instance is set; so it reports true
\* after a startup whose initialize() returned.
C19_HealthReportsReadiness ==
    [][ APP_Health =>
            /\ resp'.res = "200"
            /\ resp'.text = "true" <=> (_agent_runner /\ agent_instance # None)
      ]_vars

\* /chat of server.py takes this payload up in this step
ServerChatBegins(t, payload) ==
    \/ SV_ChatReady(t, payload)
    \/ SV_ChatInitFail(t, payload)
    \/ SV_ChatInitStart(t, payload)

\* C20: a chat request whose message is empty or only whitespace is
\* answered with 400 and goes no further, in /api/chat of app.py and in
\* /chat of server.py.
C20_BlankMessageIsRejected ==
    [][ /\ \A t \in Tasks, request \in Requests :
              (IsBlank(request.message) /\ APP_Chat(t, request)) =>
                  resp'.res = "400" /\ pc'[t] = "idle"
        /\ \A t \in Tasks, payload \in ChatPayloads :
              (IsBlank(payload.input) /\ ServerChatBegins(t, payload)) =>
                  resp'.res = "400" /\ pc'[t] = "idle"
      ]_vars

\* the agent handle a chat request finds is not ready
AppNotReady == ~_agent_runner \/ agent_instance = None
ServerNotReady == _agent_instance = None

\* backend/app.py by itself answers 503 while the agent is not ready and
\* stores nothing
AppNotReadyAnswers503 ==
    [][ \A t \in Tasks, request \in Requests :
            ( /\ ~IsBlank(request.message) /\ AppNotReady
              /\ APP_Chat(t, request) ) =>
                /\ resp'.res = "503"
                /\ sessions' = sessions
      ]_vars

\* C21: a chat request with a non-empty message that arrives while the agent
\* handle is not ready is answered with 503, not 500, and no session gains a
\* message, in /api/chat of app.py and in /chat of server.py.
C21_NotReadyIs503 ==
    [][ /\ \A t \in Tasks, request \in Requests :
              ( /\ ~IsBlank(request.message) /\ AppNotReady
                /\ APP_Chat(t, request) ) =>
                  /\ resp'.res = "503"
                  /\ sessions' = sessions
        /\ \A t \in Tasks, payload \in ChatPayloads :
              ( /\ ~IsBlank(payload.input) /\ ServerNotReady
                /\ ServerChatBegins(t, payload) ) =>
                  /\ resp'.res = "503" /\ pc'[t] = "idle"
                  /\ sessions' = sessions
      ]_vars

\* the step is a return of _build_agent_input
BuildReturned == resp'.op = "_build_agent_input"

\* the sequence without its last element
Front(seq) == SubSeq(seq, 1, Len(seq) - 1)

\* C22 as claimed: the result is one sequence that ends with {user, input};
\* its prefix is the conversation whenever one is supplied (not None), else
\* the system prompt (when one is supplied) followed by the messages; the
\* caller's conversation list is as it was.
C22_SuppliedConversationIsPrefix ==
    [][ BuildReturned =>
          LET out == call_result'.items
          IN  /\ call_result'.kind = "list"
              /\ out # <<>>
              /\ out[Len(out)] = UserMsg(call_payload.input)
              /\ Front(out) =
                     IF call_payload.conversation.kind = "list"
                     THEN call_payload.conversation.items
                     ELSE (IF call_payload.prompt # NoPrompt
                           THEN <<[role |-> "system",
                                   content |-> call_payload.prompt]>>
                           ELSE <<>>) \o call_payload.messages
              /\ call_payload' = call_payload
      ]_vars

\* C22 amended: the result is one sequence that ends with {user, input}; its
\* prefix is the conversation when that is a non-empty list; when it is None
\* or empty, the prefix is a system message for a non-empty prompt (none for
\* None or "") followed by the messages in their order; the caller's
\* conversation list is as it was.
C22_NonEmptyConversationIsPrefix ==
    [][ BuildReturned =>
          LET out == call_result'.items
              conv == call_payload.conversation
          IN  /\ call_result'.kind = "list"
              /\ out # <<>>
              /\ out[Len(out)] = UserMsg(call_payload.input)
              /\ Front(out) =
                     IF conv.kind = "list" /\ Len(conv.items) > 0
                     THEN conv.items
                     ELSE (IF call_payload.prompt \notin {NoPrompt, ""}
                           THEN <<[role |-> "system",
                                   content |-> call_payload.prompt]>>
                           ELSE <<>>) \o call_payload.messages
              /\ call_payload' = call_payload
      ]_vars

\* the function has returned for a request with a conversation, a prompt and
\* messages: the result is the conversation and the input
C22_Witness ==
    /\ resp.op = "_build_agent_input"
    /\ call_payload.prompt = "p"
    /\ Len(call_payload.messages) = 2
    /\ Len(call_payload.conversation.items) = 2
    /\ call_payload.conversation.items # call_payload.messages
    /\ call_result.items =
           call_payload.conversation.items \o <<UserMsg(call_payload.input)>>

\* the function has returned for a request with an empty conversation list:
\* the result is the system prompt, the messages and the input
C22_WitnessEmptyConversation ==
    /\ resp.op = "_build_agent_input"
    /\ call_payload.conversation = List(<<>>)
    /\ call_payload.prompt = "p"
    /\ Len(call_payload.messages) = 2
    /\ Len(call_result.items) = 4

\* a SessionManager constructed now on the same directory would hold
\* exactly the sessions the running one holds
DiskMirrorsMemory == _load_all_sessions(files) = sessions

\* C23: with persistence enabled, after any sequence of create_session,
\* add_message and delete_session calls, a SessionManager constructed on the
\* same directory holds exactly the sessions the running one holds, each
\* with the same id, created_at, updated_at, messages and metadata.
C23_ReloadReproducesSessions == persist_dir => DiskMirrorsMemory

\* a manager was just constructed on a directory left by two creates, a
\* user and an assistant message and a delete: it holds the one session
\* that was left, with both messages and the response summary
C23_Witness ==
    /\ resp.op = "__init__"
    /\ persist_dir
    /\ Cardinality(issued) = 2
    /\ Cardinality(DOMAIN sessions) = 1
    /\ DOMAIN files = DOMAIN sessions
    /\ \E id \in DOMAIN sessions :
           /\ Len(sessions[id].messages) = 2
           /\ sessions[id].messages[1].role = "user"
           /\ sessions[id].metadata.last_response # NoLastResponse
           /\ StrLess(sessions[id].created_at, sessions[id].updated_at)
           /\ files[id] = json_dump(to_dict(sessions[id]))

\* over a disk that can fail, a call that returns leaves the directory in
\* step with the table if it was; a call whose write or unlink raises has
\* changed the table all the same
ReturningCallsKeepDiskInStep ==
    [][ (DiskMirrorsMemory /\ resp'.res # "OSError") => DiskMirrorsMemory'
      ]_vars

\* the sessions whose snapshot file holds a whole document
Readable(F) == {stem \in DOMAIN F : CanLoad(F[stem])}

\* a SessionManager constructed on a directory with unreadable snapshots
\* starts, and holds the session of every readable one
LoadSkipsUnreadable ==
    [][ resp'.op = "__init__" =>
          /\ resp'.res = "ok"
          /\ DOMAIN sessions' = Readable(files)
          /\ \A id \in DOMAIN sessions' : sessions'[id] = json_load(files[id])
      ]_vars

\* C24: no persistence I/O failure is fatal to a SessionManager operation:
\* at startup an unreadable snapshot is skipped and the others are loaded,
\* and create_session and add_message return when their snapshot write
\* fails.
C24_NoPersistenceFailureIsFatal ==
    [][ /\ resp'.op = "__init__" =>
              /\ resp'.res = "ok"
              /\ DOMAIN sessions' = Readable(files)
        /\ resp'.op = "create_session" => resp'.res = "ok"
        /\ resp'.op = "add_message" => resp'.res \in {"ok", "ValueError"}
      ]_vars

\* a manager was just constructed on a directory with an unfinished
\* snapshot and a whole one
C24_LoadWitness ==
    /\ resp.op = "__init__"
    /\ \E a, b \in DOMAIN files :
           ~CanLoad(files[a]) /\ CanLoad(files[b]) /\ DOMAIN sessions = {b}

\* a step in which AgentRunner.initialize returns without raising
InitializeReturns(t) == AR_InitReturn(t) \/ AR_InitResume(t, "ok")

\* run_turn called now would raise "Agent not initialized" (line 135)
RunTurnFindsNoAgent == agent_instance = None

\* C25: whenever AgentRunner.initialize returns without raising, the runner
\* is ready (agent_instance is set), so a run_turn issued right after does
\* not fail with "Agent not initialized"; also for a call made after a
\* failed initialize, or while another initialize waits in __aenter__.
C25_ReturnedInitializeMeansReady ==
    [][ \A t \in Tasks : InitializeReturns(t) => ~RunTurnFindsNoAgent' ]_vars

\* the history a turn submitted to the agent: its input without the user
\* message of the turn
SubmittedHistory(input) ==
    IF input.kind = "str" THEN <<>> ELSE Front(input.items)

\* C26: under concurrent chat requests on one session, every turn is
\* computed with the full history that precedes it in the transcript: when
\* a turn's two messages are appended, the history it submitted to the agent
\* equals the session's messages just before the append.
\* In SpecApp no request gets as far as a turn (AppNeverRunsATurn), so the
\* property holds there without its case ever happening; in SpecTurn, the
\* pipeline of lines 157-204 without the test of line 151, it fails.
C26_TurnSawWhatPrecedesIt ==
    [][ \A t \in Tasks : pc'[t] # pc[t] =>
          \A raw \in RawOutputs :
            (CH_Resume(t, "ok", raw) /\ HasSession(sessions, loc[t].sid)) =>
                SubmittedHistory(loc[t].input) = sessions[loc[t].sid].messages
      ]_vars

\* request t comes back from run_turn in this step
TurnEnds(t) == pc[t] = "turn_run" /\ pc'[t] = "idle"

\* C27: a chat request that ends in an error response, because the agent
\* run throws or because its session was deleted while the run was in
\* flight, appends no message to any session and does not re-create the
\* deleted session: both cases end in an error, and a turn that ends in an
\* error leaves the session table as it was.
C27_FailedTurnStoresNothing ==
    [][ \A t \in Tasks : TurnEnds(t) =>
          /\ \A raw \in RawOutputs :
                 CH_Resume(t, "raises", raw) => resp'.res = "500"
          /\ ~HasSession(sessions, loc[t].sid) =>
                 /\ resp'.res = "500"
                 /\ ~HasSession(sessions', loc[t].sid)
          /\ resp'.res # "200" => sessions' = sessions
      ]_vars

\* a turn has just ended in an error because its session was deleted while
\* the agent ran; the session is still gone, and a session that an earlier
\* turn wrote to holds that turn's two messages
C27_Witness ==
    /\ resp.op = "chat" /\ resp.res = "500"
    /\ resp.sid \in issued
    /\ ~HasSession(sessions, resp.sid)
    /\ \E id \in DOMAIN sessions : Len(sessions[id].messages) = 2

\* shutdown has completed: lifespan of app.py is past line 105, or _shutdown
\* of server.py has just returned
AppShutdownComplete == phase = "stopped"
ServerShutdownComplete == resp.op = "shutdown" /\ resp.res = "returned"

\* C28: every tool subprocess that was started has had a teardown attempt
\* by the time shutdown completes, also one whose start succeeded and whose
\* initialization then failed at the agent build step: none is left running.
C28_ShutdownReachesEverySubprocess ==
    (AppShutdownComplete \/ ServerShutdownComplete) => Live = {}

====
